---- MODULE Spec2Model ----
(***************************************************************************)
(* Model of my_run_pretraining.py: the supervisor loop (main), the process *)
(* monitor (run_one), the checkpoint locator (last_checkpoint) and the TPU *)
(* provisioner (restart_tpu), together with the environment they act on:   *)
(* the training child, the shared log file, the "tail -f" reader and its   *)
(* pipe, the remote checkpoint index and the gcloud/gsutil commands.       *)
(*                                                                         *)
(* Bytes are one-character strings.  The signatures searched for in the    *)
(* log are scaled down to short byte strings:                              *)
(*   "Cancelled: Node was closed"                      ->  N c             *)
(*   "ERROR:tensorflow:Error recorded from infeed"     ->  I e             *)
(*   "TPUPollingThread found TPU" .* "in state READY, and health " (.+?) \.*)
(*                                                     ->  T .* R (.+?) \. *)
(*   status "UNHEALTHY_MAINTENANCE" -> U,  any other status, e.g. K        *)
(*   "!" stands for a byte sequence that is not valid UTF-8.               *)
(***************************************************************************)
EXTENDS Integers, Sequences, FiniteSets, TLC

\* ---------------------------------------------------------------- bounds
\* cap on the number of launches of the training child in one supervisor run
MaxLaunches == 2
\* cap on the number of writes the training children make to the log file
MaxWrites == 2
\* size of one read from the tail pipe (4096 in the source, scaled with the
\* length of the modelled output)
ReadSize == 3
\* highest checkpoint number the remote index can name
MaxCkpt == 1
\* writes that make up the output of one child in the study of the reads
MaxPieces == 3

\* ------------------------------------------------------ program constants
OK == 0
ERROR == 1
PREEMPTED == 2
\* range(3) in restart_tpu
CreateAttempts == 3
\* number of lines "tail -f" prints from the end of an existing file
TailLines == 10

NL == "\n"
NodeClosedSig == <<"N", "c">>
InfeedErrorSig == <<"I", "e">>
UnhealthyMaintenance == <<"U">>

\* what a training child may append to the log in one write
ChildWrites ==
  { <<"x", NL>>,
    <<"N", "c", NL>>,
    <<"I", "e", NL>>,
    <<"T", "R", "K", ".", NL>>,
    <<"T", "R", "U", ".", NL>>,
    <<"!", NL>> }

\* ------------------------------------------------------- pure functions

\* bytes.split(b'\n'): the pieces between newlines, the last one being the
\* text after the last newline (empty when data ends in a newline)
RECURSIVE SplitNL(_, _, _)
SplitNL(data, cur, acc) ==
  IF data = <<>> THEN Append(acc, cur)
  ELSE IF Head(data) = NL THEN SplitNL(Tail(data), <<>>, Append(acc, cur))
  ELSE SplitNL(Tail(data), Append(cur, Head(data)), acc)

Split(data) == SplitNL(data, <<>>, <<>>)

\* mutant of Fragment: nothing is held back for the next read
FragmentDropped(data) == <<>>

\* *lines, old_data = data.split(b'\n')
CompleteLines(data) == SubSeq(Split(data), 1, Len(Split(data)) - 1)
Fragment(data) == Split(data)[Len(Split(data))]

\* bytes.rstrip(): drop trailing whitespace
RECURSIVE RStrip(_)
RStrip(line) ==
  IF line # <<>> /\ line[Len(line)] = " "
  THEN RStrip(SubSeq(line, 1, Len(line) - 1))
  ELSE line

\* bytes.decode('utf-8') raises UnicodeDecodeError on an invalid sequence
Decodable(line) == \A i \in 1..Len(line) : line[i] # "!"

\* pattern.search(line) for a literal pattern
Contains(line, sig) ==
  \E i \in 1..(Len(line) - Len(sig) + 1) :
    SubSeq(line, i, i + Len(sig) - 1) = sig

\* state_msg_p.search(line): T .* R (.+?) \.  The greedy .* takes the last R
\* that still leaves one byte and a later "."; the lazy group ends at the
\* first "." that leaves it non-empty.  <<>> when there is no match.
HealthStarts(line) ==
  { j \in 2..Len(line) :
      /\ line[j] = "R"
      /\ \E i \in 1..(j - 1) : line[i] = "T"
      /\ \E k \in (j + 2)..Len(line) : line[k] = "." }

HealthGroup(line) ==
  IF HealthStarts(line) = {} THEN <<>>
  ELSE LET j == CHOOSE a \in HealthStarts(line) :
                  \A b \in HealthStarts(line) : b <= a
           k == CHOOSE a \in (j + 2)..Len(line) :
                  /\ line[a] = "."
                  /\ \A b \in (j + 2)..(a - 1) : line[b] # "."
       IN SubSeq(line, j + 1, k - 1)

\* the classification the for-loop body of run_one applies to one line
Classify(line) ==
  IF Contains(line, NodeClosedSig) THEN "TransientError"
  ELSE IF Contains(line, InfeedErrorSig) THEN "TransientError"
  ELSE IF HealthGroup(line) # <<>> THEN
         IF HealthGroup(line) = UnhealthyMaintenance THEN "HealthUM"
         ELSE "HealthOther"
  ELSE "NoSignal"

\* mutant of ProcessLines: the pending-error test comes before the test for
\* UNHEALTHY_MAINTENANCE, so a pending error turns a preemption into ERROR
RECURSIVE ProcessLinesErrorFirst(_, _, _)
ProcessLinesErrorFirst(lines, st, sigs) ==
  IF lines = <<>> THEN [res |-> "cont", st |-> st, val |-> st, sigs |-> sigs]
  ELSE
    LET raw == RStrip(Head(lines)) IN
    IF ~Decodable(raw)
    THEN [res |-> "raise", st |-> st, val |-> st, sigs |-> sigs]
    ELSE
      LET c == Classify(raw)
          s2 == Append(sigs, c) IN
      IF c = "TransientError"
      THEN ProcessLinesErrorFirst(Tail(lines), ERROR, s2)
      ELSE IF c \in {"HealthUM", "HealthOther"} /\ st = ERROR
      THEN [res |-> "ret", st |-> st, val |-> ERROR, sigs |-> s2]
      ELSE IF c = "HealthUM"
      THEN [res |-> "ret", st |-> st, val |-> PREEMPTED, sigs |-> s2]
      ELSE ProcessLinesErrorFirst(Tail(lines), st, s2)

\* mutant of ProcessLines: a health report after an error is not taken as the
\* signal to restart
RECURSIVE ProcessLinesNoConfirm(_, _, _)
ProcessLinesNoConfirm(lines, st, sigs) ==
  IF lines = <<>> THEN [res |-> "cont", st |-> st, val |-> st, sigs |-> sigs]
  ELSE
    LET raw == RStrip(Head(lines)) IN
    IF ~Decodable(raw)
    THEN [res |-> "raise", st |-> st, val |-> st, sigs |-> sigs]
    ELSE
      LET c == Classify(raw)
          s2 == Append(sigs, c) IN
      IF c = "TransientError"
      THEN ProcessLinesNoConfirm(Tail(lines), ERROR, s2)
      ELSE IF c = "HealthUM"
      THEN [res |-> "ret", st |-> st, val |-> PREEMPTED, sigs |-> s2]
      ELSE ProcessLinesNoConfirm(Tail(lines), st, s2)

\* the for-loop of run_one over the complete lines of one read: st is the
\* running tpu_status, sigs the classifications made so far in this run.
\* res is "cont" (loop ends, keep reading), "ret" (return val) or "raise".
RECURSIVE ProcessLines(_, _, _)
ProcessLines(lines, st, sigs) ==
  IF lines = <<>> THEN [res |-> "cont", st |-> st, val |-> st, sigs |-> sigs]
  ELSE
    LET raw == RStrip(Head(lines)) IN
    IF ~Decodable(raw)
    THEN [res |-> "raise", st |-> st, val |-> st, sigs |-> sigs]
    ELSE
      LET c == Classify(raw)
          s2 == Append(sigs, c) IN
      IF c = "TransientError" THEN ProcessLines(Tail(lines), ERROR, s2)
      ELSE IF c = "HealthUM"
      THEN [res |-> "ret", st |-> st, val |-> PREEMPTED, sigs |-> s2]
      ELSE IF c = "HealthOther" /\ st = ERROR
      THEN [res |-> "ret", st |-> st, val |-> ERROR, sigs |-> s2]
      ELSE ProcessLines(Tail(lines), st, s2)

\* full_cmd = cmd if not cp else '{} --init_checkpoint={}'.format(cmd, cp)
\* (cp is <<>> for None, else the path output_dir/name as <<"out", name>>)
FullCmd(cmd, c) ==
  IF c = <<>> THEN cmd ELSE cmd \o <<"--init_checkpoint=">> \o c

\* last_checkpoint: ok is whether "gsutil cp" returned 0, path the value of
\* the model_checkpoint_path line of the fetched index (<<>> when no line
\* matches, so that m is None and m.group(1) raises AttributeError)
LastCheckpoint(ok, path) ==
  IF ok
  THEN IF path = <<>>
       THEN [raises |-> TRUE, val |-> <<>>]
       ELSE [raises |-> FALSE, val |-> <<"out">> \o path]
  ELSE [raises |-> FALSE, val |-> <<>>]

\* offset in the log at which "tail -f" starts printing: the start of the
\* last TailLines lines of the file as it is when tail opens it
TailStart(file) ==
  LET P == { i \in 1..(Len(file) - 1) : file[i] = NL } IN
  IF Cardinality(P) < TailLines THEN 0
  ELSE CHOOSE p \in P : Cardinality({ q \in P : q >= p }) = TailLines


\* ------------------------------------------------------------- the state
VARIABLES
  pc,           \* where main / run_one / restart_tpu stands
  tpu_status,   \* main's tpu_status
  cp,           \* main's cp: <<>> is None
  full_cmd,     \* main's full_cmd, a sequence of tokens
  status,       \* run_one's tpu_status
  old_data,     \* run_one's old_data
  retval,       \* the value run_one is returning
  exc,          \* the exception in flight or escaped, "none" if there is none
  creates,      \* restart_tpu: failed calls of sp.run(tpu_cmd) in this call
  train,        \* train[i]: the i-th training child (Popen object and process)
  train_rc,     \* train_proc.returncode as the child set it: <<>> is None
  tail,         \* the "tail -f" reader of the current run
  log,          \* the bytes of the log file
  tail_pos,     \* how far in the log tail has copied
  pipe,         \* bytes tail wrote to its stdout that were not read yet
  remote,       \* the checkpoint index in output_dir
  launches,     \* history: training children started so far
  writes,       \* history: writes made to the log so far
  queries,      \* history: checkpoint lookups made so far
  fetched,      \* history: what the last "gsutil cp" delivered
  launched_cmd, \* history: the command of the last launch
  last_outcome, \* history: what the last finished run_one returned, -1 at first
  recreated,    \* history: restart_tpu succeeded since the last outcome
  restart_err,  \* history: how restart_tpu failed, "none" if it did not
  sigs,         \* history: classifications made in the current run_one
  cmd,          \* main's cmd, the base command
  noexec,       \* the shell of the current child cannot execute the command
  run_start,    \* history: length of the log when the current child started
  tail_from,    \* history: offset in the log at which the current tail began
  echoed,       \* history: the lines printed and classified in this run_one
  resolved_by   \* history: what made the current run_one leave its loop

vars ==
  << pc, tpu_status, cp, full_cmd, status, old_data, retval, exc, creates,
     train, train_rc, tail, log, tail_pos, pipe, remote, launches,
     writes, queries, fetched, launched_cmd, last_outcome, recreated,
     restart_err, sigs, cmd, noexec, run_start, tail_from,
     echoed, resolved_by >>

mainVars == << tpu_status, cp, full_cmd >>
monVars == << status, old_data, retval >>
procVars == << train, train_rc, tail >>
streamVars == << log, tail_pos, pipe, writes >>
ckptVars == << remote, queries, fetched >>
histVars == << launches, launched_cmd, last_outcome, recreated, restart_err >>
supVars == << cmd >>
runVars == << noexec, run_start, tail_from, echoed, resolved_by >>

\* the command read_command_file returns
Cmd == <<"cmd">>

Running(p) == p \in {"alive", "terminating"}
Finished(p) == p \in {"exited", "reaped"}

Init ==
  /\ pc = "loop"
  /\ tpu_status = OK
  /\ cp = <<>>
  /\ full_cmd = <<>>
  /\ status = OK
  /\ old_data = <<>>
  /\ retval = OK
  /\ exc = "none"
  /\ creates = 0
  /\ train = [i \in 1..MaxLaunches |-> "none"]
  /\ train_rc = <<>>
  /\ tail = "none"
  /\ log = <<>>
  /\ tail_pos = 0
  /\ pipe = <<>>
  /\ remote \in { [present |-> FALSE, path |-> <<>>],
                  [present |-> TRUE, path |-> <<>>],
                  [present |-> TRUE, path |-> <<1>>] }
  /\ launches = 0
  /\ writes = 0
  /\ queries = 0
  /\ fetched = <<>>
  /\ launched_cmd = <<>>
  /\ last_outcome = -1
  /\ recreated = FALSE
  /\ restart_err = "none"
  /\ sigs = <<>>
  /\ cmd = Cmd
  /\ noexec = FALSE
  /\ run_start = 0
  /\ tail_from = 0
  /\ echoed = <<>>
  /\ resolved_by = "none"


\* ----------------------------------------------------------------- main

\* mutant of MainLoopTop: the TPU is recreated after every outcome that is
\* not OK, also after ERROR
MainLoopTopAnyFailure ==
  /\ pc = "loop"
  /\ IF tpu_status # OK
     THEN /\ pc' = "delete"
          /\ tpu_status' = tpu_status
     ELSE /\ pc' = "lookup"
          /\ tpu_status' = OK
  /\ UNCHANGED << cp, full_cmd, monVars, exc, creates, procVars, streamVars,
                  ckptVars, histVars, sigs >>
  /\ UNCHANGED << supVars, runVars >>

\* main, lines 172-178: the top of the while-loop
MainLoopTop ==
  /\ pc = "loop"
  /\ IF tpu_status = PREEMPTED
     THEN /\ pc' = "delete"
          /\ tpu_status' = tpu_status
     ELSE /\ pc' = "lookup"
          /\ tpu_status' = OK
  /\ UNCHANGED << cp, full_cmd, monVars, exc, creates, procVars, streamVars,
                  ckptVars, histVars, sigs >>
  /\ UNCHANGED << supVars, runVars >>

\* restart_tpu, lines 63-66, called from main line 174: the delete command.
\* A non-zero return code raises RuntimeError, which main catches (lines
\* 175-177): it logs and breaks out of the loop.
RestartDelete ==
  /\ pc = "delete"
  /\ \E rc \in {0, 1} :
       IF rc = 0
       THEN /\ pc' = "create"
            /\ restart_err' = restart_err
       ELSE /\ pc' = "done"
            /\ restart_err' = "delete"
  /\ creates' = 0
  /\ UNCHANGED << mainVars, monVars, exc, procVars, streamVars, ckptVars,
                  launches, launched_cmd, last_outcome, recreated, sigs >>
  /\ UNCHANGED << supVars, runVars >>

\* restart_tpu, lines 67-72: one pass of the for-loop.  sp.run(tpu_cmd) is
\* given a string without shell=True, so the whole string is the name of the
\* program: the call raises OSError (FileNotFoundError) unless a program of
\* that name exists, and then it returns its exit status.  After the third
\* non-zero status the else-branch raises.  Every exception is caught by main
\* (lines 175-177), which breaks out of the loop.  creates counts the failed
\* attempts of this call; the counter is gone when the call returns.
RestartCreate ==
  /\ pc = "create"
  /\ creates < CreateAttempts
  /\ \E r \in {"zero", "nonzero", "oserror"} :
       CASE r = "zero" ->
              /\ creates' = 0
              /\ pc' = "lookup"
              /\ tpu_status' = OK
              /\ recreated' = TRUE
              /\ restart_err' = restart_err
         [] r = "nonzero" ->
              /\ creates' = creates + 1
              /\ pc' = IF creates' = CreateAttempts THEN "done" ELSE "create"
              /\ restart_err' =
                   IF creates' = CreateAttempts THEN "create" ELSE restart_err
              /\ UNCHANGED << tpu_status, recreated >>
         [] r = "oserror" ->
              /\ creates' = creates + 1
              /\ pc' = "done"
              /\ restart_err' = "oserror"
              /\ UNCHANGED << tpu_status, recreated >>
  /\ UNCHANGED << cp, full_cmd, monVars, exc, procVars, streamVars, ckptVars,
                  launches, launched_cmd, last_outcome, sigs >>
  /\ UNCHANGED << supVars, runVars >>

\* mutant of MainLastCheckpoint: a checkpoint found once is kept, the lookup
\* is made only while cp is None
MainLastCheckpointCached ==
  /\ pc = "lookup"
  /\ IF cp # <<>>
     THEN /\ pc' = "popen_train"
          /\ UNCHANGED << cp, full_cmd, exc, queries, fetched >>
     ELSE /\ \E ok \in BOOLEAN :
               /\ ok => remote.present
               /\ fetched' = IF ok THEN remote.path ELSE <<>>
               /\ LET r == LastCheckpoint(ok, remote.path) IN
                    IF r.raises
                    THEN /\ pc' = "crashed"
                         /\ exc' = "AttributeError"
                         /\ UNCHANGED << cp, full_cmd >>
                    ELSE /\ pc' = "popen_train"
                         /\ exc' = exc
                         /\ cp' = r.val
                         /\ full_cmd' = FullCmd(cmd, r.val)
          /\ queries' = queries + 1
  /\ UNCHANGED << tpu_status, monVars, creates, procVars, streamVars, remote,
                  histVars, sigs >>
  /\ UNCHANGED << supVars, runVars >>

\* mutant of MainLastCheckpoint: the resume argument is appended to cmd itself,
\* so that it stays there for the launches that follow
MainLastCheckpointAccumulates ==
  /\ pc = "lookup"
  /\ \E ok \in BOOLEAN :
       /\ ok => remote.present
       /\ fetched' = IF ok THEN remote.path ELSE <<>>
       /\ LET r == LastCheckpoint(ok, remote.path) IN
            IF r.raises
            THEN /\ pc' = "crashed"
                 /\ exc' = "AttributeError"
                 /\ UNCHANGED << cp, full_cmd, cmd >>
            ELSE /\ pc' = "popen_train"
                 /\ exc' = exc
                 /\ cp' = r.val
                 /\ cmd' = FullCmd(cmd, r.val)
                 /\ full_cmd' = cmd'
  /\ queries' = queries + 1
  /\ UNCHANGED << tpu_status, monVars, creates, procVars, streamVars, remote,
                  histVars, sigs >>
  /\ UNCHANGED << runVars >>

\* main, lines 180-185: cp = last_checkpoint(output_dir) and full_cmd.  The
\* fetch can fail whatever the remote holds and cannot succeed when the index
\* is absent.  An exception of last_checkpoint is not caught by main.
MainLastCheckpoint ==
  /\ pc = "lookup"
  /\ \E ok \in BOOLEAN :
       /\ ok => remote.present
       /\ fetched' = IF ok THEN remote.path ELSE <<>>
       /\ LET r == LastCheckpoint(ok, remote.path) IN
            IF r.raises
            THEN /\ pc' = "crashed"
                 /\ exc' = "AttributeError"
                 /\ UNCHANGED << cp, full_cmd >>
            ELSE /\ pc' = "popen_train"
                 /\ exc' = exc
                 /\ cp' = r.val
                 /\ full_cmd' = FullCmd(cmd, r.val)
  /\ queries' = queries + 1
  /\ UNCHANGED << tpu_status, monVars, creates, procVars, streamVars, remote,
                  histVars, sigs >>
  /\ UNCHANGED << supVars, runVars >>

\* main, lines 187-190: the outcome of run_one
MainOutcome ==
  /\ pc = "returned"
  /\ tpu_status' = retval
  /\ pc' = IF retval = OK THEN "done" ELSE "loop"
  /\ UNCHANGED << cp, full_cmd, monVars, exc, creates, procVars, streamVars,
                  ckptVars, histVars, sigs >>
  /\ UNCHANGED << supVars, runVars >>


\* -------------------------------------------------------------- run_one

\* run_one, line 93: train_proc = sp.Popen(full_cmd + ' >> ' + log_file ...,
\* shell=True).  Popen raises OSError when the shell cannot be started;
\* nothing in run_one or main catches it.  When the shell starts and cannot
\* execute the command ("noexec"), Popen returns as for a command that runs:
\* the child is the shell, which prints its message and exits with 127.
RunOnePopenTrain ==
  /\ pc = "popen_train"
  /\ launches < MaxLaunches
  /\ \E r \in {"started", "noexec", "oserror"} :
       IF r # "oserror"
       THEN /\ pc' = "sleep"
            /\ launches' = launches + 1
            /\ train' = [train EXCEPT ![launches + 1] = "alive"]
            /\ train_rc' = <<>>
            /\ launched_cmd' = full_cmd
            /\ exc' = exc
            /\ noexec' = (r = "noexec")
            /\ run_start' = Len(log)
       ELSE /\ pc' = "crashed"
            /\ exc' = "OSError"
            /\ UNCHANGED << launches, train, train_rc, launched_cmd, noexec,
                            run_start >>
  /\ UNCHANGED << mainVars, monVars, creates, tail, streamVars,
                  ckptVars, last_outcome, recreated, restart_err, sigs >>
  /\ UNCHANGED << supVars, tail_from, echoed, resolved_by >>

\* run_one, line 97: time.sleep(5)
RunOneSleep ==
  /\ pc = "sleep"
  /\ pc' = "popen_tail"
  /\ UNCHANGED << mainVars, monVars, exc, creates, procVars, streamVars,
                  ckptVars, histVars, sigs >>
  /\ UNCHANGED << supVars, runVars >>

\* run_one, lines 99-109: tail_proc = sp.Popen('tail -f ' + log_file ...) and
\* the locals of the loop.  The Popen is outside the try-block: when it raises,
\* the finally-block does not run.
RunOnePopenTail ==
  /\ pc = "popen_tail"
  /\ \E ok \in BOOLEAN :
       IF ok
       THEN /\ pc' = "select"
            /\ tail' = "alive"
            /\ tail_pos' = TailStart(log)
            /\ pipe' = <<>>
            /\ status' = OK
            /\ old_data' = <<>>
            /\ sigs' = <<>>
            /\ exc' = exc
            /\ tail_from' = TailStart(log)
            /\ echoed' = <<>>
            /\ resolved_by' = "none"
       ELSE /\ pc' = "crashed"
            /\ exc' = "OSError"
            /\ UNCHANGED << tail, tail_pos, pipe, status, old_data, sigs,
                            tail_from, echoed, resolved_by >>
  /\ UNCHANGED << mainVars, retval, creates, train, train_rc, log, writes,
                  ckptVars, histVars >>
  /\ UNCHANGED << supVars, noexec, run_start >>

\* run_one, line 112-113: select returns the pipe as ready when it holds data
\* or is at end-of-file (its writer is gone)
RunOneSelectReady ==
  /\ pc = "select"
  /\ pipe # <<>> \/ Finished(tail)
  /\ pc' = "read"
  /\ UNCHANGED << mainVars, monVars, exc, creates, procVars, streamVars,
                  ckptVars, histVars, sigs >>
  /\ UNCHANGED << supVars, runVars >>

\* mutant of RunOneSelectTimeout: the exit status of the child is looked at,
\* a non-zero status gives ERROR
RunOneSelectTimeoutChecksStatus ==
  /\ pc = "select"
  /\ pipe = <<>> /\ ~Finished(tail)
  /\ Finished(train[launches])
  /\ train' = [train EXCEPT ![launches] = "reaped"]
  /\ retval' = IF train_rc # <<0>> THEN ERROR ELSE status
  /\ resolved_by' = "exit"
  /\ pc' = "terminate"
  /\ UNCHANGED << mainVars, status, old_data, exc, creates, train_rc, tail,
                  streamVars, ckptVars, histVars, sigs >>
  /\ UNCHANGED << supVars, noexec, run_start, tail_from, echoed >>

\* run_one, lines 112 and 142-144: select times out and train_proc.poll() finds
\* the child gone (poll reaps it).  With the child still running the loop
\* comes back to select with nothing changed.
RunOneSelectTimeout ==
  /\ pc = "select"
  /\ pipe = <<>> /\ ~Finished(tail)
  /\ Finished(train[launches])
  /\ train' = [train EXCEPT ![launches] = "reaped"]
  /\ retval' = status
  /\ resolved_by' = "exit"
  /\ pc' = "terminate"
  /\ UNCHANGED << mainVars, status, old_data, exc, creates, train_rc, tail,
                  streamVars, ckptVars, histVars, sigs >>
  /\ UNCHANGED << supVars, noexec, run_start, tail_from, echoed >>

\* run_one, lines 114-141, for a read that returns the first n bytes of the
\* pipe: no data is end-of-file and gives the pending status; otherwise the
\* data is put after the fragment held back, split, the last piece is held
\* back and the complete lines are echoed and classified
ReadData(n) ==
  LET new_data == SubSeq(pipe, 1, n)
      data == old_data \o new_data
      lines == CompleteLines(data)
      r == ProcessLines(lines, status, sigs)
  IN /\ pipe' = SubSeq(pipe, n + 1, Len(pipe))
     /\ IF new_data = <<>>
        THEN /\ retval' = status
             /\ resolved_by' = "eof"
             /\ pc' = "terminate"
             /\ UNCHANGED << status, old_data, exc, sigs, echoed >>
        ELSE /\ old_data' = Fragment(data)
             /\ echoed' = echoed \o
                  [i \in 1..(Len(r.sigs) - Len(sigs)) |-> RStrip(lines[i])]
             /\ resolved_by' = CASE r.res = "ret" -> "report"
                                 [] r.res = "raise" -> "raise"
                                 [] OTHER -> resolved_by
             /\ status' = r.st
             /\ sigs' = r.sigs
             /\ pc' = IF r.res = "cont" THEN "select" ELSE "terminate"
             /\ retval' = IF r.res = "ret" THEN r.val ELSE retval
             /\ exc' = IF r.res = "raise" THEN "UnicodeDecodeError" ELSE exc
     /\ UNCHANGED << mainVars, creates, procVars, log, tail_pos, writes,
                     ckptVars, histVars >>
     /\ UNCHANGED << supVars, noexec, run_start, tail_from >>

\* run_one, line 114: tail_proc.stdout.read(4096) on the buffered reader of
\* the pipe returns when it has the full count or reaches end-of-file
RunOneRead ==
  /\ pc = "read"
  /\ Len(pipe) >= ReadSize \/ Finished(tail)
  /\ ReadData(IF Len(pipe) >= ReadSize THEN ReadSize ELSE Len(pipe))

\* what poll() followed by terminate() makes of a process: a running one is
\* sent SIGTERM, one that has exited is reaped
PollTerminate(p) ==
  IF p = "alive" THEN "terminating"
  ELSE IF p = "exited" THEN "reaped"
  ELSE p

\* run_one, lines 147-152: the first half of the finally-block
RunOneTerminate ==
  /\ pc = "terminate"
  /\ tail' = PollTerminate(tail)
  /\ train' = [train EXCEPT ![launches] = PollTerminate(train[launches])]
  /\ pc' = "wait"
  /\ UNCHANGED << mainVars, monVars, exc, creates, train_rc, streamVars,
                  ckptVars, histVars, sigs >>
  /\ UNCHANGED << supVars, runVars >>

\* mutant of RunOneWait: the finally-block sends the signals and does not
\* wait for the processes to be gone
RunOneNoWait ==
  /\ pc = "wait"
  /\ IF exc = "none"
     THEN /\ pc' = "returned"
          /\ last_outcome' = retval
          /\ recreated' = FALSE
     ELSE /\ pc' = "crashed"
          /\ UNCHANGED << last_outcome, recreated >>
  /\ UNCHANGED << mainVars, monVars, exc, creates, procVars, streamVars,
                  ckptVars, launches, launched_cmd, restart_err, sigs >>
  /\ UNCHANGED << supVars, runVars >>

\* run_one, lines 153-155: tail_proc.wait() and train_proc.wait() return once
\* the processes are gone; then run_one returns retval, or the exception in
\* flight goes on to main, which does not catch it.
RunOneWait ==
  /\ pc = "wait"
  /\ Finished(tail) /\ Finished(train[launches])
  /\ tail' = "reaped"
  /\ train' = [train EXCEPT ![launches] = "reaped"]
  /\ IF exc = "none"
     THEN /\ pc' = "returned"
          /\ last_outcome' = retval
          /\ recreated' = FALSE
     ELSE /\ pc' = "crashed"
          /\ UNCHANGED << last_outcome, recreated >>
  /\ UNCHANGED << mainVars, monVars, exc, creates, train_rc, streamVars,
                  ckptVars, launches, launched_cmd, restart_err, sigs >>
  /\ UNCHANGED << supVars, runVars >>

\* ------------------------------------------------------ the environment

\* a running training child appends to the log file
ChildWrite ==
  /\ writes < MaxWrites
  /\ \E i \in 1..MaxLaunches, w \in ChildWrites :
       /\ train[i] = "alive"
       /\ noexec /\ i = launches => w = <<"x", NL>>
       /\ log' = log \o w
  /\ writes' = writes + 1
  /\ UNCHANGED << pc, mainVars, monVars, exc, creates, procVars, tail_pos,
                  pipe, ckptVars, histVars, sigs >>
  /\ UNCHANGED << supVars, runVars >>

\* a running training child saves a checkpoint and updates the index
ChildSaveCheckpoint ==
  /\ \E i \in 1..MaxLaunches : train[i] = "alive" /\ ~(noexec /\ i = launches)
  /\ LET n == IF remote.path = <<>> THEN 1 ELSE remote.path[1] + 1 IN
       /\ n <= MaxCkpt
       /\ remote' = [present |-> TRUE, path |-> <<n>>]
  /\ UNCHANGED << pc, mainVars, monVars, exc, creates, procVars, streamVars,
                  queries, fetched, histVars, sigs >>
  /\ UNCHANGED << supVars, runVars >>

\* a training child exits by itself, with status 0 or not; the shell that
\* could not execute the command exits with 127
ChildExit ==
  /\ \E i \in 1..MaxLaunches, rc \in {0, 1, 127} :
       /\ train[i] = "alive"
       /\ rc = 127 <=> noexec /\ i = launches
       /\ train' = [train EXCEPT ![i] = "exited"]
       /\ train_rc' = IF i = launches THEN <<rc>> ELSE train_rc
  /\ UNCHANGED << pc, mainVars, monVars, exc, creates, tail, streamVars,
                  ckptVars, histVars, sigs >>
  /\ UNCHANGED << supVars, runVars >>

\* a training child that was sent SIGTERM dies of it
ChildKilled ==
  /\ \E i \in 1..MaxLaunches :
       /\ train[i] = "terminating"
       /\ train' = [train EXCEPT ![i] = "exited"]
       /\ train_rc' = IF i = launches THEN <<-15>> ELSE train_rc
  /\ UNCHANGED << pc, mainVars, monVars, exc, creates, tail, streamVars,
                  ckptVars, histVars, sigs >>
  /\ UNCHANGED << supVars, runVars >>

\* tail -f copies what was appended to the log to its stdout
TailCopy ==
  /\ tail = "alive"
  /\ tail_pos < Len(log)
  /\ pipe' = pipe \o SubSeq(log, tail_pos + 1, Len(log))
  /\ tail_pos' = Len(log)
  /\ UNCHANGED << pc, mainVars, monVars, exc, creates, procVars, log, writes,
                  ckptVars, histVars, sigs >>
  /\ UNCHANGED << supVars, runVars >>

\* the tail process ends: by itself (killed from outside, an I/O error) or of
\* the SIGTERM it was sent
TailExit ==
  /\ Running(tail)
  /\ tail' = "exited"
  /\ UNCHANGED << pc, mainVars, monVars, exc, creates, train, train_rc,
                  streamVars, ckptVars, histVars, sigs >>
  /\ UNCHANGED << supVars, runVars >>

\* main, lines 192-196, and the interpreter: after 'Done.' main returns and
\* the process exits with status 0; an exception main does not catch ends the
\* process with a traceback and status 1.  -1 while the supervisor runs.
ExitStatus ==
  CASE pc = "done" -> 0
    [] pc = "crashed" -> 1
    [] OTHER -> -1

Next ==
  \/ MainLoopTop
  \/ RestartDelete
  \/ RestartCreate
  \/ MainLastCheckpoint
  \/ MainOutcome
  \/ RunOnePopenTrain
  \/ RunOneSleep
  \/ RunOnePopenTail
  \/ RunOneSelectReady
  \/ RunOneSelectTimeout
  \/ RunOneRead
  \/ RunOneTerminate
  \/ RunOneWait
  \/ ChildWrite
  \/ ChildSaveCheckpoint
  \/ ChildExit
  \/ ChildKilled
  \/ TailCopy
  \/ TailExit

Spec == Init /\ [][Next]_vars

\* the steps of the supervisor itself, main and run_one, but for the read
Program ==
  \/ MainLoopTop
  \/ RestartDelete
  \/ RestartCreate
  \/ MainLastCheckpoint
  \/ MainOutcome
  \/ RunOnePopenTrain
  \/ RunOneSleep
  \/ RunOnePopenTail
  \/ RunOneSelectReady
  \/ RunOneSelectTimeout
  \/ RunOneTerminate
  \/ RunOneWait

\* run_one, line 114: the read returns.  The steps of Next that leave
\* pc = "read" are those of RunOneRead, which is enabled exactly when the
\* read has its count of bytes or is at end-of-file.
ReadReturns ==
  /\ pc = "read"
  /\ Len(pipe) >= ReadSize \/ Finished(tail)
  /\ pc' \in {"select", "terminate"}

\* the tail process ends of the SIGTERM it was sent
TailKilled == tail = "terminating" /\ TailExit

\* The supervisor is one thread that takes its next step whenever it can:
\* select has a timeout (line 112), so the loop of run_one comes round again,
\* and a call that does not block returns, the read included.  tail -f forwards what is appended
\* to the log, and a process that was sent SIGTERM ends.  Nothing makes the
\* child write or exit, and nothing ends a tail -f that was not signalled.
FairSpec ==
  /\ Spec
  /\ WF_vars(Program)
  /\ WF_pc(ReadReturns)
  /\ WF_vars(TailCopy)
  /\ WF_vars(ChildKilled)
  /\ WF_vars(TailKilled)


\* ------------------------------------------- the reads of one run_one

\* what reaches the pipe in one write: a write of the child, or a piece of a
\* line without its newline
Pieces == ChildWrites \cup { <<"x">> }

RECURSIVE Flatten(_)
Flatten(ss) == IF ss = <<>> THEN <<>> ELSE Head(ss) \o Flatten(Tail(ss))

\* the outputs of a child made of at most MaxPieces writes
Streams ==
  { Flatten(ss) : ss \in UNION { [1..n -> Pieces] : n \in 0..MaxPieces } }

\* run_one at its select, lines 107-112, in the first iteration of main with
\* no checkpoint: the child has written all its output and exited, tail has
\* copied it to the pipe and ended, nothing was read yet
ChunkInit ==
  /\ pc = "select"
  /\ tpu_status = OK
  /\ cp = <<>>
  /\ full_cmd = Cmd
  /\ status = OK
  /\ old_data = <<>>
  /\ retval = OK
  /\ exc = "none"
  /\ creates = 0
  /\ train = [i \in 1..MaxLaunches |-> IF i = 1 THEN "exited" ELSE "none"]
  /\ train_rc = <<0>>
  /\ tail = "exited"
  /\ log \in Streams
  /\ tail_pos = Len(log)
  /\ pipe = log
  /\ remote = [present |-> FALSE, path |-> <<>>]
  /\ launches = 1
  /\ writes = 0
  /\ queries = 1
  /\ fetched = <<>>
  /\ launched_cmd = Cmd
  /\ last_outcome = -1
  /\ recreated = FALSE
  /\ restart_err = "none"
  /\ sigs = <<>>
  /\ cmd = Cmd
  /\ noexec = FALSE
  /\ run_start = 0
  /\ tail_from = 0
  /\ echoed = <<>>
  /\ resolved_by = "none"

\* run_one, lines 114-141, with a read that returns any number of the bytes
\* in the pipe (none only at end-of-file): the stream is cut at any place
ChunkRead ==
  /\ pc = "read"
  /\ \E n \in 0..Len(pipe) :
       /\ n = 0 => pipe = <<>>
       /\ ReadData(n)

ChunkNext ==
  \/ RunOneSelectReady
  \/ ChunkRead

ChunkSpec == ChunkInit /\ [][ChunkNext]_vars


\* ------------------------------------------------------------ properties

\* control is inside run_one, after the training child was started
InRunOne == pc \in {"sleep", "popen_tail", "select", "read", "terminate", "wait"}

\* control is in the body of an iteration of main, past restart_tpu
InIteration == pc = "lookup" \/ pc = "popen_train" \/ InRunOne

\* control is inside restart_tpu
InRestart == pc \in {"delete", "create"}

SomeChildRunning == \E i \in 1..MaxLaunches : Running(train[i])

Has(seq, c) == \E i \in 1..Len(seq) : seq[i] = c

NoSignature(seq) == \A i \in 1..Len(seq) : seq[i] = "NoSignal"

\* C1: restart_tpu runs exactly when the run_one before it returned
\* PREEMPTED, and before the next launch: never before the first launch, never
\* after ERROR, and an iteration that follows PREEMPTED reaches its lookup and
\* launch only with a successful restart_tpu behind it.
C1_RecreateExactlyAfterPreempted ==
  /\ InRestart => launches > 0 /\ last_outcome = PREEMPTED /\ ~recreated
  /\ restart_err # "none" => last_outcome = PREEMPTED /\ ~recreated
  /\ recreated => last_outcome = PREEMPTED
  /\ InIteration /\ last_outcome = PREEMPTED => recreated

\* C1 witness: a second child was launched after PREEMPTED and a successful
\* restart_tpu
C1_Witness ==
  /\ pc = "sleep"
  /\ launches = 2
  /\ last_outcome = PREEMPTED
  /\ recreated

\* C2: the supervisor stops launching only after an outcome OK or after a
\* failed restart_tpu (a child that cannot be started is left aside: the
\* error handling section lets that failure end the run).
C2_StopsOnlyWhenDone ==
  pc \in {"done", "crashed"} /\ exc # "OSError"
    => last_outcome = OK \/ restart_err # "none"

\* C3: every launch follows a lookup of its own, and the command launched is
\* the base command with the resume argument for exactly what that lookup
\* fetched: none when it fetched nothing.
C3_LaunchUsesFreshCheckpoint ==
  launches > 0 /\ pc \notin {"popen_train", "crashed"}
    => /\ queries = launches
       /\ launched_cmd =
            IF fetched = <<>> THEN <<"cmd">>
            ELSE <<"cmd", "--init_checkpoint=", "out">> \o fetched

\* C3 witness: a relaunch that resumes from the checkpoint just found
C3_Witness ==
  /\ pc = "sleep"
  /\ launches = 2
  /\ fetched = <<1>>
  /\ launched_cmd = <<"cmd", "--init_checkpoint=", "out", 1>>

\* C4: at most one training child runs at any time, and none runs while
\* control is in main outside run_one: at the outcome, at the top of the
\* loop, in restart_tpu, in the lookup and at the next launch.
C4_AtMostOneChild ==
  /\ Cardinality({ i \in 1..MaxLaunches : Running(train[i]) }) <= 1
  /\ pc \in {"returned", "loop", "delete", "create", "lookup", "popen_train", "done"}
       => ~SomeChildRunning

\* C4 witness: the second child runs and the first one is gone
C4_Witness ==
  /\ launches = 2
  /\ train[2] = "alive"
  /\ train[1] = "reaped"

\* C5: whenever control has left run_one, by a return or by an exception,
\* neither the tail reader nor a training child is running.
C5_NothingOutlivesRunOne ==
  ~InRunOne => ~Running(tail) /\ ~SomeChildRunning

\* C6: once a line is classified as a health report with status
\* UNHEALTHY_MAINTENANCE, no further line is classified, run_one is on its way
\* out with PREEMPTED and returns PREEMPTED, whatever was classified before.
C6_MaintenancePreempts ==
  Has(sigs, "HealthUM")
    => /\ sigs[Len(sigs)] = "HealthUM"
       /\ pc \notin {"select", "read"}
       /\ retval = PREEMPTED
       /\ pc \in {"terminate", "wait"} => exc = "none"
       /\ pc \notin {"terminate", "wait"} => last_outcome = PREEMPTED

\* C6 witness: PREEMPTED returned with an error pending
C6_Witness ==
  /\ pc = "returned"
  /\ sigs = <<"TransientError", "HealthUM">>
  /\ status = ERROR
  /\ retval = PREEMPTED

\* C7 as claimed: a transient error followed by any health report gives ERROR
C7_ErrorThenAnyReportFails ==
  (\E i, j \in 1..Len(sigs) :
      /\ i < j
      /\ sigs[i] = "TransientError"
      /\ sigs[j] \in {"HealthUM", "HealthOther"})
    => retval = ERROR

\* C7 amended: a transient error followed by a health report whose status is
\* not UNHEALTHY_MAINTENANCE ends the classification there and makes run_one
\* return ERROR.
C7_ErrorThenOtherReportFails ==
  (\E i, j \in 1..Len(sigs) :
      /\ i < j
      /\ sigs[i] = "TransientError"
      /\ sigs[j] = "HealthOther")
    => /\ sigs[Len(sigs)] = "HealthOther"
       /\ pc \notin {"select", "read"}
       /\ retval = ERROR
       /\ pc \in {"terminate", "wait"} => exc = "none"
       /\ pc \notin {"terminate", "wait"} => last_outcome = ERROR

\* C7 witness: ERROR returned on the health report that follows the error
C7_Witness ==
  /\ pc = "returned"
  /\ sigs = <<"TransientError", "HealthOther">>
  /\ last_outcome = ERROR

\* the training child of the finished run exited by itself with a non-zero
\* status, and no line classified in that run carried a signature
FailedUnnoticed ==
  /\ ~InRunOne
  /\ pc # "crashed"
  /\ train_rc = <<1>>
  /\ NoSignature(sigs)

\* C8 as claimed: a non-zero exit without a signature gives ERROR
C8_NonZeroExitFails ==
  FailedUnnoticed => last_outcome = ERROR

\* C8 amended: a non-zero exit without a signature gives OK, as the exit
\* status is not looked at, and the supervisor stops: it never goes back to
\* the top of the loop.
C8_NonZeroExitCompletes ==
  FailedUnnoticed => last_outcome = OK /\ pc \in {"returned", "done"}

\* C8 witness: the supervisor is done after a child that printed a line
\* without a signature and exited with status 1
C8_Witness ==
  /\ pc = "done"
  /\ train_rc = <<1>>
  /\ sigs = <<"NoSignal">>
  /\ last_outcome = OK

\* C9: a lookup that produces no checkpoint, because the fetch failed or the
\* index has no model_checkpoint_path line, leaves main at the launch with
\* the base command alone.
C9_LookupNeverFatal ==
  queries > launches /\ fetched = <<>> /\ exc # "OSError"
    => pc = "popen_train" /\ cp = <<>> /\ full_cmd = <<"cmd">>

\* C10: restart_tpu makes no creation attempt when the deletion failed, at
\* most 3 otherwise, none after a success, and fails on creation only after
\* exactly 3 failed attempts.
C10_ThreeCreationAttempts ==
  /\ creates <= 3
  /\ restart_err = "delete" => creates = 0
  /\ restart_err \in {"create", "oserror"} => creates = 3
  /\ recreated => pc # "create"


\* C11: when restart_tpu fails, the supervisor ends with a non-zero exit
\* status, unlike after an outcome OK.
C11_ProvisioningFailureExitsNonZero ==
  restart_err # "none" => ExitStatus > 0

\* C12: a training command that cannot be started never comes back from
\* run_one as an outcome and is never launched again: the failure ends the
\* supervisor with the exception.
C12_LaunchFailureIsFatal ==
  noexec /\ ~InRunOne => pc = "crashed"


\* the monitor of the current launch has its tail reader and is classifying,
\* or has just come back
Monitoring == pc \in {"select", "read", "terminate", "wait", "returned"}

IsPrefix(s, t) == Len(s) <= Len(t) /\ SubSeq(t, 1, Len(s)) = s

\* the complete lines the child of the current launch has written so far, as
\* the monitor echoes them (decoded and right-stripped)
Emitted ==
  LET ls == CompleteLines(SubSeq(log, run_start + 1, Len(log)))
  IN [i \in 1..Len(ls) |-> RStrip(ls[i])]

\* C15: within one run the lines classified are the complete lines the child
\* of this run wrote, in the order written, none skipped: always a prefix of
\* them, and all of them when the run is resolved by the exit of the child.
C15_ClassifiedAreEmitted ==
  Monitoring =>
    /\ IsPrefix(echoed, Emitted)
    /\ resolved_by = "exit" => echoed = Emitted

\* C16: the monitor of a launch never classifies a line written to the log by
\* an earlier launch: whenever it has classified a line, its tail reader
\* started at or after the place where this launch began to write.
C16_NoLineOfPreviousLaunch ==
  Monitoring /\ echoed # <<>> => tail_from >= run_start


\* run_one has resolved its outcome at end-of-file of the pipe or at the exit
\* of the child, not at a health report
ResolvedWithoutReport ==
  /\ pc \in {"terminate", "wait", "returned"}
  /\ resolved_by \in {"eof", "exit"}

\* the outcome follows the pending-error flag of the lines classified
OutcomeByFlag ==
  retval = IF Has(sigs, "TransientError") THEN ERROR ELSE OK

\* the child of the current launch wrote no line with a signature
EmittedNoSignature ==
  \A i \in 1..Len(Emitted) :
    Decodable(Emitted[i]) /\ Classify(Emitted[i]) = "NoSignal"

ResumeArgs(c) ==
  Cardinality({ i \in (Len(Cmd) + 1)..Len(c) :
                  (i - Len(Cmd)) % 3 = 1 /\ c[i] = "--init_checkpoint=" })

\* C19: every command launched is the base command read at startup, alone or
\* followed by one resume argument, whatever was launched before, and the
\* base command itself is never changed.
C19_BaseCommandKept ==
  /\ cmd = Cmd
  /\ launches > 0 =>
       /\ IsPrefix(Cmd, launched_cmd)
       /\ ResumeArgs(launched_cmd) <= 1
       /\ launched_cmd # Cmd =>
            \E c \in {<<"out", k>> : k \in 1..MaxCkpt} :
              launched_cmd = Cmd \o <<"--init_checkpoint=">> \o c

\* C19 witness: a relaunch with a resume argument, made from the base command
\* that was used for the launch before it
C19_Witness ==
  /\ pc = "sleep"
  /\ launches = MaxLaunches
  /\ cmd = Cmd
  /\ ResumeArgs(launched_cmd) = 1


\* what run_one makes of the output read in one piece
Unsplit(stream) == ProcessLines(CompleteLines(stream), OK, <<>>)

\* the part of the output of the child that has been read
Consumed == SubSeq(log, 1, Len(log) - Len(pipe))

\* C18: however the output is cut into reads, what has been classified after
\* any read is what one read of the same bytes classifies, with the same
\* fragment held back, and run_one ends with the lines classified, the
\* outcome and the exception of the output read in one piece.
C18_CutsDoNotMatter ==
  /\ pc \in {"select", "read"} =>
       /\ Unsplit(Consumed).res = "cont"
       /\ sigs = Unsplit(Consumed).sigs
       /\ status = Unsplit(Consumed).st
       /\ old_data = Fragment(Consumed)
  /\ pc = "terminate" =>
       /\ sigs = Unsplit(log).sigs
       /\ echoed = [i \in 1..Len(sigs) |-> RStrip(CompleteLines(log)[i])]
       /\ CASE resolved_by = "eof" ->
                 Unsplit(log).res = "cont" /\ retval = Unsplit(log).st
            [] resolved_by = "report" ->
                 Unsplit(log).res = "ret" /\ retval = Unsplit(log).val
            [] resolved_by = "raise" ->
                 Unsplit(log).res = "raise" /\ exc = "UnicodeDecodeError"
            [] OTHER -> FALSE

\* C18 witness: run_one returned ERROR for an output that was cut inside the
\* signature of the error and inside the health report that follows it
C18_Witness ==
  /\ pc = "terminate"
  /\ log = <<"N", "c", NL, "T", "R", "K", ".", NL>>
  /\ retval = ERROR
  /\ resolved_by = "report"
  /\ sigs = <<"TransientError", "HealthOther">>


\* run_one is in its loop of select and read
InLoop == pc \in {"select", "read"}

\* C20: once the training child has exited, run_one leaves its loop of
\* select and read: it does not wait forever on a pipe that its tail reader
\* keeps open.
C20_ReturnsAfterChildExit ==
  (InLoop /\ Finished(train[launches])) ~> ~InLoop


\* the first launch, made without a resume argument as no checkpoint was
\* found, is being monitored
FirstRunFromScratch == InLoop /\ launches = 1 /\ launched_cmd = Cmd

\* C13: when no checkpoint is present and the child writes only lines without
\* a signature and exits with status 0, the supervisor ends with exit status
\* 0 after this one launch, made without a resume argument, and without
\* recreating the TPU.
C13_CleanRunExitsZero ==
  (FirstRunFromScratch /\ train_rc = <<0>> /\ EmittedNoSignature)
    ~> (ExitStatus = 0 /\ launches = 1 /\ launched_cmd = Cmd /\ ~recreated)

\* the child of the current launch wrote the node-closed signature and no
\* health report
EmittedNodeClosed ==
  /\ \E i \in 1..Len(Emitted) : Contains(Emitted[i], NodeClosedSig)
  /\ \A i \in 1..Len(Emitted) :
       Decodable(Emitted[i]) /\ HealthGroup(Emitted[i]) = <<>>

\* the supervisor was stopped from outside: a process could not be started
\* (Popen raises OSError) or the tail reader ended without being signalled
StoppedFromOutside == exc = "OSError" \/ (InLoop /\ Finished(tail))

====
